---- MODULE Spec2Model ----
(***************************************************************************)
(* Model of the auto-bidding bot of bot.ipynb: the polling loop of the     *)
(* second cell and the pipeline functions of the first cell                *)
(* (filter_projects, refine_projects_with_llm,                             *)
(* shortlist_projects_and_generate_bids, place_bid).                       *)
(*                                                                         *)
(* Text is a sequence of tokens: a word ("Budget:", "MATCH", "USD"), a     *)
(* blank " ", one decimal digit, or a <think> delimiter.  Numbers that the *)
(* code computes with true division are exact rationals <<n, d>>.          *)
(***************************************************************************)
EXTENDS Integers, Sequences, FiniteSets, TLC

\* ------------------------------------------------------------------------
\* Bounds of the model
\* ------------------------------------------------------------------------
\* Number of distinct projects the marketplace can return.
NumProjects == 5
\* The configured bid cap (the notebook sets 10; the cap is run configuration).
BID_LIMIT == 3

\* ------------------------------------------------------------------------
\* Values
\* ------------------------------------------------------------------------
\* Python None and a missing dictionary key.
None == <<>>
Absent == <<"absent">>
\* A value that is present (not None): the one-element tuple holding it.
Some(x) == <<x>>

RECURSIVE GCD(_, _)
GCD(a, b) == IF b = 0 THEN a ELSE GCD(b, a % b)

\* The rational n/d in lowest terms (n >= 0, d > 0).
Rat(n, d) == LET g == GCD(n, d) IN <<n \div g, d \div g>>
Int2Rat(n) == <<n, 1>>
RatAdd(x, y) == Rat(x[1] * y[2] + y[1] * x[2], x[2] * y[2])
RatDiv(x, y) == Rat(x[1] * y[2], x[2] * y[1])
RatLeq(x, y) == x[1] * y[2] <= y[1] * x[2]
RatMax(x, y) == IF RatLeq(y, x) THEN x ELSE y
IsZero(x) == x[1] = 0

\* Python truthiness of an exchange rate: None and 0 are falsy.
Truthy(rate) == rate # None /\ ~IsZero(rate)

\* ------------------------------------------------------------------------
\* Text
\* ------------------------------------------------------------------------
Digits == {"0", "1", "2", "3", "4", "5", "6", "7", "8", "9"}
DigitVal(c) ==
    CASE c = "0" -> 0 [] c = "1" -> 1 [] c = "2" -> 2 [] c = "3" -> 3
      [] c = "4" -> 4 [] c = "5" -> 5 [] c = "6" -> 6 [] c = "7" -> 7
      [] c = "8" -> 8 [] c = "9" -> 9

\* str.lower() on one token.
LowerTok(t) ==
    CASE t \in {"MATCH", "Match", "match"} -> "match"
      [] t \in {"NO", "no"} -> "no"
      [] t \in {"FIXED", "Fixed", "fixed"} -> "fixed"
      [] t \in {"HOURLY", "Hourly", "hourly"} -> "hourly"
      [] t \in {"ACTIVE", "Active", "active"} -> "active"
      [] t \in {"India", "INDIA", "india"} -> "india"
      [] t \in {"Pakistan", "pakistan"} -> "pakistan"
      [] t \in {"United States", "united states"} -> "united states"
      [] OTHER -> t
Lower(s) == [i \in 1..Len(s) |-> LowerTok(s[i])]

\* str.strip(): drop leading and trailing blanks.
RECURSIVE LStrip(_)
LStrip(s) == IF s # <<>> /\ Head(s) = " " THEN LStrip(Tail(s)) ELSE s
RECURSIVE RStrip(_)
RStrip(s) ==
    IF s # <<>> /\ s[Len(s)] = " " THEN RStrip(SubSeq(s, 1, Len(s) - 1)) ELSE s
Strip(s) == RStrip(LStrip(s))

\* re.sub(r'<think>.*?</think>', '', s, flags=re.DOTALL): every leftmost,
\* shortest <think>...</think> block is removed; an unclosed <think> stays.
RECURSIVE StripThink(_)
StripThink(s) ==
    LET opens == {i \in 1..Len(s) : s[i] = "<think>"} IN
    IF opens = {} THEN s
    ELSE LET i == CHOOSE k \in opens : \A m \in opens : k <= m
             closes == {j \in (i + 1)..Len(s) : s[j] = "</think>"}
         IN IF closes = {} THEN s
            ELSE LET j == CHOOSE k \in closes : \A m \in closes : k <= m
                 IN SubSeq(s, 1, i - 1) \o StripThink(SubSeq(s, j + 1, Len(s)))

\* Index of the first non-blank token at or after position k (Len(s)+1 if none).
RECURSIVE SkipBlanks(_, _)
SkipBlanks(s, k) ==
    IF k <= Len(s) /\ s[k] = " " THEN SkipBlanks(s, k + 1) ELSE k

\* int() of the longest run of digits that starts at position k, continuing
\* the value acc read so far.
RECURSIVE ReadInt(_, _, _)
ReadInt(s, k, acc) ==
    IF k <= Len(s) /\ s[k] \in Digits
    THEN ReadInt(s, k + 1, 10 * acc + DigitVal(s[k]))
    ELSE acc

\* re.search(key + r"\s*(\d+)", s): the number captured by the leftmost
\* match, or None.
SearchNumber(key, s) ==
    LET hits == {i \in 1..Len(s) :
                    /\ s[i] = key
                    /\ LET k == SkipBlanks(s, i + 1)
                       IN k <= Len(s) /\ s[k] \in Digits}
    IN IF hits = {} THEN None
       ELSE LET i == CHOOSE k \in hits : \A m \in hits : k <= m
            IN Some(ReadInt(s, SkipBlanks(s, i + 1), 0))

\* ------------------------------------------------------------------------
\* Configuration (first cell)
\* ------------------------------------------------------------------------
unwanted_currencies == {"INR", "PKR", "BDT"}
unwanted_countries ==
    {"india", "bangladesh", "pakistan", "srilanka", "south africa", "kenya",
     "uganda", "eygpt", "indonesia", "philippines", "afganistan"}

\* ------------------------------------------------------------------------
\* Step 1: filter_projects, one iteration of its for loop
\* ------------------------------------------------------------------------
\* The record appended to filtered_projects (title and description, opaque
\* text that only reaches the prompts, are left out).  A missing
\* exchange_rate key reads as 1; a key holding None or 0 is kept.  The
\* first version reads a missing key as 0.
EnrichedProject_DefaultZero(project, complete_details) ==
    [id |-> project.id,
     owner_id |-> project.owner_id,
     minimum_budget |-> complete_details.minimum,
     maximum_budget |-> complete_details.maximum,
     currency |-> project.currency.code,
     type |-> project.type,
     exchange_rate |-> IF project.currency.exchange_rate = Absent
                       THEN Int2Rat(0)
                       ELSE project.currency.exchange_rate]
EnrichedProject(project, complete_details) ==
    [id |-> project.id,
     owner_id |-> project.owner_id,
     minimum_budget |-> complete_details.minimum,
     maximum_budget |-> complete_details.maximum,
     currency |-> project.currency.code,
     type |-> project.type,
     exchange_rate |-> IF project.currency.exchange_rate = Absent
                       THEN Int2Rat(1)
                       ELSE project.currency.exchange_rate]

\* Which of the four continue statements the iteration takes, "none" when
\* it reaches the get_projects call.
ContinueTaken(project, user_details) ==
    IF LowerTok(user_details.country) \in unwanted_countries THEN "country"
    ELSE IF project.currency.code \in unwanted_currencies THEN "currency"
    ELSE IF project.upgrades.NDA THEN "NDA"
    ELSE IF LowerTok(project.status) # "active" THEN "status"
    ELSE "none"

\* The rejection predicates in the order the code tests them, given the
\* owner record get_user_by_id returned (first without the NDA test, then
\* with the status compared as it is spelled).
Rejected_NoNDA(project, user_details) ==
    \/ LowerTok(user_details.country) \in unwanted_countries
    \/ project.currency.code \in unwanted_currencies
    \/ LowerTok(project.status) # "active"
Rejected_StatusExact(project, user_details) ==
    \/ LowerTok(user_details.country) \in unwanted_countries
    \/ project.currency.code \in unwanted_currencies
    \/ project.upgrades.NDA
    \/ project.status # "active"
Rejected(project, user_details) ==
    \/ LowerTok(user_details.country) \in unwanted_countries
    \/ project.currency.code \in unwanted_currencies
    \/ project.upgrades.NDA
    \/ LowerTok(project.status) # "active"

\* Whether the iteration reaches the get_projects call.
NeedsDetails(project, user_details) ==
    user_details.ok /\ ~Rejected(project, user_details)

\* Outcome of one iteration: "raise" when a lookup raised (nothing in
\* filter_projects catches it), "skip" on a rejection, "keep" otherwise.
FilterOutcome(project, user_details, complete_details) ==
    IF ~user_details.ok THEN "raise"
    ELSE IF Rejected(project, user_details) THEN "skip"
    ELSE IF ~complete_details.ok THEN "raise"
    ELSE "keep"

\* ------------------------------------------------------------------------
\* Step 2: check_project_match_with_llm / refine_projects_with_llm
\* ------------------------------------------------------------------------
\* A model reply is [ok |-> the call returned, content |-> its text].
check_project_match_with_llm(reply) ==
    IF reply.ok THEN Strip(reply.content) ELSE <<>>

\* result.lower() == "match" after the <think> blocks and the surrounding
\* blanks are removed (first: "match" in result.lower(), a substring test).
IsMatch_Contains(reply) ==
    LET result == Lower(Strip(StripThink(check_project_match_with_llm(reply))))
    IN \E i \in 1..Len(result) : result[i] = "match"
IsMatch(reply) ==
    Lower(Strip(StripThink(check_project_match_with_llm(reply)))) = <<"match">>

\* ------------------------------------------------------------------------
\* Step 3: analyze_budget_deadline, generate_bid_content
\* ------------------------------------------------------------------------
\* The prompt arguments minimum_budget * exchange_rate are computed inside
\* the try block: an exchange rate of None raises there and is caught.
analyze_budget_deadline(project, reply) ==
    IF project.exchange_rate = None \/ ~reply.ok THEN <<>>
    ELSE Strip(StripThink(reply.content))

\* generate_bid_content returns "" from its except branch (first with an
\* error text in its place).
generate_bid_content_Message(reply) ==
    IF reply.ok THEN Strip(StripThink(reply.content)) ELSE <<"error">>
generate_bid_content(reply) ==
    IF reply.ok THEN Strip(StripThink(reply.content)) ELSE <<>>

\* ------------------------------------------------------------------------
\* Step 4: extract_budget_and_deadline, shortlist_projects_and_generate_bids
\* ------------------------------------------------------------------------
\* <<budget, deadline>>, both None unless both patterns match.
extract_budget_and_deadline(info) ==
    LET budget_match == SearchNumber("Budget:", info)
        deadline_match == SearchNumber("Deadline:", info)
    IN IF budget_match # None /\ deadline_match # None
       THEN <<budget_match, deadline_match>>
       ELSE <<None, None>>

MinBid == 70
FallbackPeriod == 7
HourlyPeriod == 40
DegenerateBid == 1000

Max(a, b) == IF a >= b THEN a ELSE b

\* max(70, minimum_budget + maximum_budget / 1.5), with (minimum_budget +
\* maximum_budget) / 1.5 as the slip that misplaces the division.
FallbackBid_SumFirst(project) ==
    RatMax(Int2Rat(MinBid),
           RatDiv(Int2Rat(project.minimum_budget + project.maximum_budget), <<3, 2>>))
FallbackBid(project) ==
    RatMax(Int2Rat(MinBid),
           RatAdd(Int2Rat(project.minimum_budget),
                  RatDiv(Int2Rat(project.maximum_budget), <<3, 2>>)))

\* budget = max(70, budget); (budget / rate) if rate else 1000, with the
\* variant that forgets the floor.
ConvertedBid_NoFloor(budget, rate) ==
    IF Truthy(rate) THEN RatDiv(Int2Rat(budget), rate) ELSE Int2Rat(DegenerateBid)
ConvertedBid(budget, rate) ==
    IF Truthy(rate)
    THEN RatDiv(Int2Rat(Max(MinBid, budget)), rate)
    ELSE Int2Rat(DegenerateBid)

\* (max_budget + min_budget) / 2
MidpointBid(project) == Rat(project.maximum_budget + project.minimum_budget, 2)

\* bid_amount and bid_period of one project, as <<amount, period>>: the
\* three if statements of the loop body, the last one overriding.  In the
\* first version the non-fixed branch is an else of the parsed branch.
BidAmountAndPeriod_NoOverride(project, info) ==
    LET parsed == extract_budget_and_deadline(info)
        budget == parsed[1]
        deadline == parsed[2]
        unparsed == budget = None \/ deadline = None
        fixed == LowerTok(project.type) = "fixed"
    IN IF ~unparsed
       THEN <<ConvertedBid(budget[1], project.exchange_rate), deadline[1]>>
       ELSE IF fixed THEN <<FallbackBid(project), FallbackPeriod>>
       ELSE <<MidpointBid(project), HourlyPeriod>>
BidAmountAndPeriod(project, info) ==
    LET parsed == extract_budget_and_deadline(info)
        budget == parsed[1]
        deadline == parsed[2]
        unparsed == budget = None \/ deadline = None
        fixed == LowerTok(project.type) = "fixed"
    IN IF ~fixed THEN <<MidpointBid(project), HourlyPeriod>>
       ELSE IF unparsed THEN <<FallbackBid(project), FallbackPeriod>>
       ELSE <<ConvertedBid(budget[1], project.exchange_rate), deadline[1]>>

\* The draft appended to shortlisted_bids (first with the owner's id in
\* place of the project's).
BidDraft_OwnerId(project, info, bid_content) ==
    LET ap == BidAmountAndPeriod(project, info)
    IN [project_id |-> project.owner_id,
        bid_content |-> bid_content,
        bid_amount |-> ap[1],
        bid_period |-> ap[2],
        currency_code |-> project.currency]
BidDraft(project, info, bid_content) ==
    LET ap == BidAmountAndPeriod(project, info)
    IN [project_id |-> project.id,
        bid_content |-> bid_content,
        bid_amount |-> ap[1],
        bid_period |-> ap[2],
        currency_code |-> project.currency]

\* ------------------------------------------------------------------------
\* The marketplace and the text-generation service
\* ------------------------------------------------------------------------
ProjectIds == 1..NumProjects

\* The raw record search_projects returns for project id in the polling
\* loop: types, exchange rates and the spelling of the status vary with the id.
RawProject(id) ==
    [id |-> id,
     owner_id |-> 100 + id,
     currency |-> [code |-> "USD",
                   exchange_rate |-> CASE id % 4 = 1 -> Int2Rat(1)
                                       [] id % 4 = 2 -> Int2Rat(2)
                                       [] id % 4 = 3 -> Absent
                                       [] OTHER -> Int2Rat(0)],
     upgrades |-> [NDA |-> FALSE],
     status |-> IF id % 2 = 0 THEN "Active" ELSE "active",
     type |-> CASE id % 3 = 1 -> "fixed"
                [] id % 3 = 2 -> "hourly"
                [] OTHER -> "Fixed"]

\* The feed up to project k, oldest first.
Feed(k) == [i \in 1..k |-> RawProject(i)]

\* The batches a search can return: the feed up to any project (the same
\* projects come back in later searches), possibly with its first project
\* listed a second time.
Batches ==
    {Feed(k) : k \in 0..NumProjects}
        \cup {Append(Feed(k), RawProject(1)) : k \in 1..NumProjects}

\* Owner records get_user_by_id can return (ok = FALSE: the call raised).
UserDetails ==
    {[ok |-> TRUE, country |-> "United States"],
     [ok |-> TRUE, country |-> "India"],
     [ok |-> FALSE, country |-> ""]}

\* Budget records get_projects can return for the polling loop.
LoopDetails ==
    {[ok |-> TRUE, minimum |-> 100, maximum |-> 600],
     [ok |-> FALSE, minimum |-> 0, maximum |-> 0]}

Failed == [ok |-> FALSE, content |-> <<>>]
Reply(text) == [ok |-> TRUE, content |-> text]

\* Replies of the service-match prompt.
MatchReplies ==
    {Reply(<<"MATCH">>),
     Reply(<<" ", "Match", " ">>),
     Reply(<<"<think>", "NO", " ", "MATCH", "</think>", " ", "match">>),
     Reply(<<"NO", " ", "MATCH">>),
     Reply(<<"MATCH", " ", "it", " ", "is">>),
     Reply(<<"<think>", "MATCH">>),
     Reply(<<"<think>", "MATCH", "</think>">>),
     Reply(<<>>),
     Failed}

\* Replies of the budget prompt seen by the polling loop.
LoopBudgetReplies ==
    {Reply(<<"Budget:", " ", "6", "0", "0", " ", "USD", ",", " ",
             "Deadline:", " ", "1", "0", " ", "days">>)}

\* Replies of the bid-text prompt.
ContentReplies == {Reply(<<"bid">>), Failed}

\* ------------------------------------------------------------------------
\* State
\* ------------------------------------------------------------------------
VARIABLES
    pc,                     \* position of the second cell's control flow
    projects,               \* the batch the latest search returned
    processed_project_ids,  \* set of project ids seen so far
    bid_counter,            \* drafts the submission loop has processed
    new_projects,           \* the cycle's batch after dedup
    filtered_projects,      \* list built by filter_projects
    refined_projects,       \* list built by refine_projects_with_llm
    shortlisted_bids,       \* list built by shortlist_projects_and_generate_bids
    idx,                    \* index of the running for loop
    infos,                  \* budget_deadline_info behind each draft
    composed,               \* whether the bid-text call behind each draft returned
    lookups,                \* the lookups filter_projects made, one entry per project
    last_match,             \* reply of the latest service-match call of the running qualifier
    ever_new,               \* ids that were in some cycle's new_projects
    placed,                 \* project ids passed to place_project_bid, in order
    last_bid,               \* outcome of the latest place_bid call
    sessions,               \* Sessions component: useState([])
    isLoading,              \* useState(true)
    error,                  \* useState(null)
    isModalOpen,            \* useState(false)
    editingSession,         \* useState(null)
    isEditing,              \* useState(false)
    pending,                \* sessionsAPI.getAll() requests in flight
    last_response,          \* what the latest finished getAll request returned
    last_save               \* what the latest onSave handler call did

vars == <<pc, projects, processed_project_ids, bid_counter, new_projects,
          filtered_projects, refined_projects, shortlisted_bids, idx, infos,
          composed, lookups, last_match, ever_new, placed, last_bid,
          sessions, isLoading, error, isModalOpen, editingSession, isEditing,
          pending, last_response, last_save>>

\* The variables of the notebook's bot and those of the dashboard's
\* Sessions component.
bot == <<pc, projects, processed_project_ids, bid_counter, new_projects,
         filtered_projects, refined_projects, shortlisted_bids, idx, infos,
         composed, lookups, last_match, ever_new, placed, last_bid>>
dashboard == <<sessions, isLoading, error, isModalOpen, editingSession,
               isEditing, pending, last_response, last_save>>

\* What one cycle builds, and the records of what has happened.
cycle == <<projects, new_projects, filtered_projects, refined_projects,
           shortlisted_bids, idx, infos, composed, lookups, last_match>>
history == <<ever_new, placed, last_bid>>

NoBid == [project_id |-> 0, identity |-> "none", placement |-> "none", seal |-> "none"]
NoReply == [ok |-> FALSE, content |-> <<"not called">>]

\* No getAll request has finished yet; no onSave handler has run yet.
NoResponse == [ok |-> FALSE, kind |-> "none", sessions |-> <<>>]
NoSave == [handler |-> "none", session_id |-> 0, outcome |-> "none"]

\* The Sessions component after its first render: the useState initial
\* values, with the fetchSessions call of the mount effect in flight.
SessionsInit ==
    /\ sessions = <<>>
    /\ isLoading = TRUE
    /\ error = None
    /\ isModalOpen = FALSE
    /\ editingSession = None
    /\ isEditing = FALSE
    /\ pending = 1
    /\ last_response = NoResponse
    /\ last_save = NoSave

Init ==
    /\ pc = "polling"
    /\ projects = <<>>
    /\ ever_new = {}
    /\ processed_project_ids = {}
    /\ bid_counter = 0
    /\ new_projects = <<>>
    /\ filtered_projects = <<>>
    /\ refined_projects = <<>>
    /\ shortlisted_bids = <<>>
    /\ idx = 1
    /\ infos = <<>>
    /\ composed = <<>>
    /\ lookups = <<>>
    /\ last_match = NoReply
    /\ placed = <<>>
    /\ last_bid = NoBid
    /\ SessionsInit

\* ------------------------------------------------------------------------
\* Second cell: the polling loop
\* ------------------------------------------------------------------------
\* while bid_counter < BID_LIMIT (and the test written with <=)
WhileGuard_LessEq == bid_counter <= BID_LIMIT
WhileGuard == bid_counter < BID_LIMIT

\* if bid_counter >= BID_LIMIT: break (and the test written with > instead)
LimitReached_OffByOne == bid_counter > BID_LIMIT
LimitReached == bid_counter >= BID_LIMIT

\* [p for p in projects['projects'] if p.get('id') not in processed_project_ids]
\* (and the list without the membership test)
NewProjects_NoDedup(batch, processed) == batch
NewProjects(batch, processed) ==
    SelectSeq(batch, LAMBDA p : p.id \notin processed)

\* processed_project_ids after the loop that adds every new project's id
\* (and with the loop left out)
AddProcessed_Noop(processed, new) == processed
AddProcessed(processed, new) ==
    processed \cup {new[i].id : i \in 1..Len(new)}

\* search_projects raised: the except branch sleeps 10 seconds (first
\* without the try: the exception leaves the loop).
SearchFails_Uncaught ==
    /\ pc = "polling"
    /\ WhileGuard
    /\ pc' = "crashed"
    /\ UNCHANGED <<processed_project_ids, bid_counter, cycle, history>>
    /\ UNCHANGED dashboard
SearchFails ==
    /\ pc = "polling"
    /\ WhileGuard
    /\ pc' = "backoff"
    /\ UNCHANGED <<processed_project_ids, bid_counter, cycle, history>>
    /\ UNCHANGED dashboard

\* The backoff sleep is over: continue with the while test.
BackoffOver ==
    /\ pc = "backoff"
    /\ pc' = "polling"
    /\ UNCHANGED <<processed_project_ids, bid_counter, cycle, history>>
    /\ UNCHANGED dashboard

\* search_projects returned a batch: dedup, then filter_projects starts.
SearchReturns ==
    /\ pc = "polling"
    /\ WhileGuard
    /\ \E batch \in Batches :
          /\ projects' = batch
          /\ new_projects' = NewProjects(batch, processed_project_ids)
          /\ processed_project_ids' =
                AddProcessed(processed_project_ids, new_projects')
          /\ ever_new' = ever_new \cup {new_projects'[i].id : i \in 1..Len(new_projects')}
    /\ pc' = "filtering"
    /\ idx' = 1
    /\ filtered_projects' = <<>>
    /\ lookups' = <<>>
    /\ UNCHANGED <<bid_counter, refined_projects, shortlisted_bids, infos,
                   composed, last_match, placed, last_bid>>
    /\ UNCHANGED dashboard

\* One iteration of the for loop of filter_projects.  An exception of
\* get_user_by_id or get_projects leaves filter_projects and the while loop.
FilterProject(Details) ==
    /\ pc = "filtering"
    /\ idx <= Len(new_projects)
    /\ \E user_details \in UserDetails, complete_details \in Details :
          LET project == new_projects[idx]
              outcome == FilterOutcome(project, user_details, complete_details)
          IN /\ pc' = IF outcome = "raise" THEN "crashed" ELSE "filtering"
             /\ idx' = IF outcome = "raise" THEN idx ELSE idx + 1
             /\ filtered_projects' =
                   IF outcome = "keep"
                   THEN Append(filtered_projects,
                               EnrichedProject(project, complete_details))
                   ELSE filtered_projects
             /\ lookups' = Append(lookups,
                                  [project_id |-> project.id,
                                   owner |-> user_details,
                                   skipped_at |->
                                       IF user_details.ok
                                       THEN ContinueTaken(project, user_details)
                                       ELSE "none",
                                   details |-> NeedsDetails(project, user_details)])
    /\ UNCHANGED <<projects, processed_project_ids, bid_counter, new_projects,
                   refined_projects, shortlisted_bids, infos, composed,
                   last_match, history>>
    /\ UNCHANGED dashboard

\* filter_projects returns; refine_projects_with_llm starts.
FilterReturns ==
    /\ pc = "filtering"
    /\ idx > Len(new_projects)
    /\ pc' = "qualifying"
    /\ idx' = 1
    /\ refined_projects' = <<>>
    /\ UNCHANGED <<projects, processed_project_ids, bid_counter, new_projects,
                   filtered_projects, shortlisted_bids, infos, composed,
                   lookups, last_match, history>>
    /\ UNCHANGED dashboard

\* One iteration of the for loop of refine_projects_with_llm.
RefineProject ==
    /\ pc = "qualifying"
    /\ idx <= Len(filtered_projects)
    /\ \E reply \in MatchReplies :
          /\ refined_projects' =
                IF IsMatch(reply)
                THEN Append(refined_projects, filtered_projects[idx])
                ELSE refined_projects
          /\ last_match' = reply
    /\ idx' = idx + 1
    /\ UNCHANGED <<pc, projects, processed_project_ids, bid_counter, new_projects,
                   filtered_projects, shortlisted_bids, infos, composed,
                   lookups, history>>
    /\ UNCHANGED dashboard

\* refine_projects_with_llm returns; shortlist_projects_and_generate_bids starts.
RefineReturns ==
    /\ pc = "qualifying"
    /\ idx > Len(filtered_projects)
    /\ pc' = "pricing"
    /\ idx' = 1
    /\ shortlisted_bids' = <<>>
    /\ infos' = <<>>
    /\ composed' = <<>>
    /\ last_match' = NoReply
    /\ UNCHANGED <<projects, processed_project_ids, bid_counter, new_projects,
                   filtered_projects, refined_projects, lookups, history>>
    /\ UNCHANGED dashboard

\* One iteration of the for loop of shortlist_projects_and_generate_bids.
ShortlistProject(BudgetReplies) ==
    /\ pc = "pricing"
    /\ idx <= Len(refined_projects)
    /\ \E budget_reply \in BudgetReplies, content_reply \in ContentReplies :
          LET project == refined_projects[idx]
              info == analyze_budget_deadline(project, budget_reply)
          IN /\ shortlisted_bids' =
                   Append(shortlisted_bids,
                          BidDraft(project, info, generate_bid_content(content_reply)))
             /\ infos' = Append(infos, info)
             /\ composed' = Append(composed, content_reply.ok)
    /\ idx' = idx + 1
    /\ UNCHANGED <<pc, projects, processed_project_ids, bid_counter, new_projects,
                   filtered_projects, refined_projects, lookups, last_match,
                   history>>
    /\ UNCHANGED dashboard

\* shortlist_projects_and_generate_bids returns; the submission loop starts
\* (first with a loop that returns one project early).
ShortlistReturns_Early ==
    /\ pc = "pricing"
    /\ idx >= Len(refined_projects)
    /\ pc' = "submitting"
    /\ idx' = 1
    /\ UNCHANGED <<projects, processed_project_ids, bid_counter, new_projects,
                   filtered_projects, refined_projects, shortlisted_bids, infos,
                   composed, lookups, last_match, history>>
    /\ UNCHANGED dashboard
ShortlistReturns ==
    /\ pc = "pricing"
    /\ idx > Len(refined_projects)
    /\ pc' = "submitting"
    /\ idx' = 1
    /\ UNCHANGED <<projects, processed_project_ids, bid_counter, new_projects,
                   filtered_projects, refined_projects, shortlisted_bids, infos,
                   composed, lookups, last_match, history>>
    /\ UNCHANGED dashboard

\* place_bid: what happened for one draft, given whether get_self_user_id
\* returned, what place_project_bid did ("ok": a truthy response, "falsy",
\* "raised") and whether highlight_project_bid returned.  Every exception
\* is caught inside place_bid.  The first version seals outside the
\* "if response" test.
place_bid_SealAlways(bid, identity_ok, response, seal_ok) ==
    [project_id |-> bid.project_id,
     identity |-> IF identity_ok THEN "ok" ELSE "failed",
     placement |-> IF identity_ok THEN response ELSE "none",
     seal |-> IF identity_ok
              THEN (IF seal_ok THEN "ok" ELSE "failed")
              ELSE "none"]
place_bid(bid, identity_ok, response, seal_ok) ==
    [project_id |-> bid.project_id,
     identity |-> IF identity_ok THEN "ok" ELSE "failed",
     placement |-> IF identity_ok THEN response ELSE "none",
     seal |-> IF identity_ok /\ response = "ok"
              THEN (IF seal_ok THEN "ok" ELSE "failed")
              ELSE "none"]

\* The for loop over shortlisted_bids found the cap reached: break.
BidLimitBreak ==
    /\ pc = "submitting"
    /\ idx <= Len(shortlisted_bids)
    /\ LimitReached
    /\ pc' = "cycle_pause"
    /\ UNCHANGED <<processed_project_ids, bid_counter, cycle, history>>
    /\ UNCHANGED dashboard

\* The cap is not reached: time.sleep(10) before the draft is submitted.
StartPacing ==
    /\ pc = "submitting"
    /\ idx <= Len(shortlisted_bids)
    /\ ~LimitReached
    /\ pc' = "pacing"
    /\ UNCHANGED <<processed_project_ids, bid_counter, cycle, history>>
    /\ UNCHANGED dashboard

\* place_bid(...) for the current draft, then bid_counter += 1 (first with
\* the increment made only when place_project_bid was reached).
PlaceBid_CountsPlacements ==
    /\ pc = "pacing"
    /\ \E identity_ok \in BOOLEAN, response \in {"ok", "falsy", "raised"},
          seal_ok \in BOOLEAN :
          LET bid == shortlisted_bids[idx]
              outcome == place_bid(bid, identity_ok, response, seal_ok)
          IN /\ last_bid' = outcome
             /\ placed' = IF outcome.placement # "none"
                          THEN Append(placed, bid.project_id)
                          ELSE placed
             /\ bid_counter' = IF outcome.placement # "none"
                               THEN bid_counter + 1
                               ELSE bid_counter
    /\ idx' = idx + 1
    /\ pc' = "submitting"
    /\ UNCHANGED <<projects, processed_project_ids, new_projects,
                   filtered_projects, refined_projects, shortlisted_bids, infos,
                   composed, lookups, last_match, ever_new>>
    /\ UNCHANGED dashboard
PlaceBid ==
    /\ pc = "pacing"
    /\ \E identity_ok \in BOOLEAN, response \in {"ok", "falsy", "raised"},
          seal_ok \in BOOLEAN :
          LET bid == shortlisted_bids[idx]
              outcome == place_bid(bid, identity_ok, response, seal_ok)
          IN /\ last_bid' = outcome
             /\ placed' = IF outcome.placement # "none"
                          THEN Append(placed, bid.project_id)
                          ELSE placed
    /\ bid_counter' = bid_counter + 1
    /\ idx' = idx + 1
    /\ pc' = "submitting"
    /\ UNCHANGED <<projects, processed_project_ids, new_projects,
                   filtered_projects, refined_projects, shortlisted_bids, infos,
                   composed, lookups, last_match, ever_new>>
    /\ UNCHANGED dashboard

\* The for loop ran out of drafts (first without the sleep that follows
\* the loop).
BidsExhausted_NoPause ==
    /\ pc = "submitting"
    /\ idx > Len(shortlisted_bids)
    /\ pc' = "polling"
    /\ UNCHANGED <<processed_project_ids, bid_counter, cycle, history>>
    /\ UNCHANGED dashboard
BidsExhausted ==
    /\ pc = "submitting"
    /\ idx > Len(shortlisted_bids)
    /\ pc' = "cycle_pause"
    /\ UNCHANGED <<processed_project_ids, bid_counter, cycle, history>>
    /\ UNCHANGED dashboard

\* time.sleep(5) is over: back to the while test.  The cycle's lists are
\* not read again before they are rebuilt, so they are emptied here.
CyclePauseOver ==
    /\ pc = "cycle_pause"
    /\ pc' = "polling"
    /\ projects' = <<>>
    /\ new_projects' = <<>>
    /\ filtered_projects' = <<>>
    /\ refined_projects' = <<>>
    /\ shortlisted_bids' = <<>>
    /\ infos' = <<>>
    /\ composed' = <<>>
    /\ lookups' = <<>>
    /\ idx' = 1
    /\ UNCHANGED <<processed_project_ids, bid_counter, last_match, history>>
    /\ UNCHANGED dashboard

\* The while test fails: "Bid limit reached. Bot is stopping."
LoopExits ==
    /\ pc = "polling"
    /\ ~WhileGuard
    /\ pc' = "terminated"
    /\ UNCHANGED <<processed_project_ids, bid_counter, cycle, history>>
    /\ UNCHANGED dashboard

Next ==
    \/ SearchFails
    \/ BackoffOver
    \/ SearchReturns
    \/ FilterProject(LoopDetails)
    \/ FilterReturns
    \/ RefineProject
    \/ RefineReturns
    \/ ShortlistProject(LoopBudgetReplies)
    \/ ShortlistReturns
    \/ BidLimitBreak
    \/ StartPacing
    \/ PlaceBid
    \/ BidsExhausted
    \/ CyclePauseOver
    \/ LoopExits

Spec == Init /\ [][Next]_vars

\* ------------------------------------------------------------------------
\* One cycle over a one-project batch, with the project's fields, the
\* budget record and the model replies drawn from wider sets
\* ------------------------------------------------------------------------
PipelineRawProjects ==
    {[id |-> 1,
      owner_id |-> 101,
      currency |-> [code |-> code, exchange_rate |-> rate],
      upgrades |-> [NDA |-> nda],
      status |-> status,
      type |-> type] :
        code \in {"USD", "INR"},
        rate \in {Absent, None, Int2Rat(0), Int2Rat(1), Int2Rat(2), <<1, 2>>},
        nda \in BOOLEAN,
        status \in {"active", "ACTIVE", "closed"},
        type \in {"fixed", "Fixed", "hourly"}}

PipelineDetails ==
    {[ok |-> TRUE, minimum |-> 200, maximum |-> 800],
     [ok |-> TRUE, minimum |-> 100, maximum |-> 600],
     [ok |-> TRUE, minimum |-> 300, maximum |-> 900],
     [ok |-> TRUE, minimum |-> 10, maximum |-> 30],
     [ok |-> FALSE, minimum |-> 0, maximum |-> 0]}

PipelineBudgetReplies ==
    {Reply(<<"Budget:", " ", "6", "0", "0", " ", "USD", ",", " ",
             "Deadline:", " ", "1", "0", " ", "days">>),
     Reply(<<"Budget:", " ", "5", "0", " ", "USD", ",", " ",
             "Deadline:", " ", "3", " ", "days">>),
     Reply(<<"Budget:", " ", "1", ",", "5", "0", "0", " ", "USD", ",", " ",
             "Deadline:", " ", "1", "4", " ", "days">>),
     Reply(<<"Budget:", " ", "$", "6", "0", "0", " ", "USD", ",", " ",
             "Deadline:", " ", "1", "0", " ", "days">>),
     Reply(<<"Budget:", " ", "6", "0", "0", " ", "USD">>),
     Reply(<<"Deadline:", " ", "5", " ", "days">>),
     Reply(<<"<think>", "Budget:", " ", "9", " ", "Deadline:", " ", "9", "</think>",
             " ", "Budget:", "2", "0", "0", " ", "USD", ",", " ",
             "Deadline:", " ", "5", " ", "days">>),
     Reply(<<"sorry">>),
     Reply(<<>>),
     Failed}

InitPipeline ==
    /\ pc = "filtering"
    /\ \E project \in PipelineRawProjects :
          /\ projects = <<project>>
          /\ new_projects = <<project>>
          /\ processed_project_ids = {project.id}
          /\ ever_new = {project.id}
    /\ bid_counter = 0
    /\ filtered_projects = <<>>
    /\ refined_projects = <<>>
    /\ shortlisted_bids = <<>>
    /\ idx = 1
    /\ infos = <<>>
    /\ composed = <<>>
    /\ lookups = <<>>
    /\ last_match = NoReply
    /\ placed = <<>>
    /\ last_bid = NoBid
    /\ SessionsInit

NextPipeline ==
    \/ FilterProject(PipelineDetails)
    \/ FilterReturns
    \/ RefineProject
    \/ RefineReturns
    \/ ShortlistProject(PipelineBudgetReplies)
    \/ ShortlistReturns
    \/ StartPacing
    \/ PlaceBid
    \/ BidsExhausted
    \/ CyclePauseOver

SpecPipeline == InitPipeline /\ [][NextPipeline]_vars

\* ------------------------------------------------------------------------
\* filter_projects alone, over batches of up to MaxFilterBatch projects
\* whose currency, NDA flag and status vary independently
\* ------------------------------------------------------------------------
MaxFilterBatch == 2

FilterRawProjects(id) ==
    {[id |-> id,
      owner_id |-> 100 + id,
      currency |-> [code |-> code, exchange_rate |-> Int2Rat(1)],
      upgrades |-> [NDA |-> nda],
      status |-> status,
      type |-> "fixed"] :
        code \in {"USD", "INR"},
        nda \in BOOLEAN,
        status \in {"active", "ACTIVE", "closed"}}

\* The batches handed to filter_projects: project i of the batch has id i.
FilterBatches ==
    UNION {{batch \in [1..n -> UNION {FilterRawProjects(i) : i \in 1..n}] :
               \A i \in 1..n : batch[i].id = i} : n \in 1..MaxFilterBatch}

InitFilter ==
    /\ pc = "filtering"
    /\ \E batch \in FilterBatches :
          /\ projects = batch
          /\ new_projects = batch
          /\ processed_project_ids = {batch[i].id : i \in 1..Len(batch)}
          /\ ever_new = {batch[i].id : i \in 1..Len(batch)}
    /\ bid_counter = 0
    /\ filtered_projects = <<>>
    /\ refined_projects = <<>>
    /\ shortlisted_bids = <<>>
    /\ idx = 1
    /\ infos = <<>>
    /\ composed = <<>>
    /\ lookups = <<>>
    /\ last_match = NoReply
    /\ placed = <<>>
    /\ last_bid = NoBid
    /\ SessionsInit

NextFilter ==
    \/ FilterProject(LoopDetails)
    \/ FilterReturns

SpecFilter == InitFilter /\ [][NextFilter]_vars

\* ------------------------------------------------------------------------
\* The dashboard's Sessions component.  A handler's setState calls take
\* effect together, so a handler is one step; a getAll request is in flight
\* between the call of fetchSessions and the step that resumes it.
\* ------------------------------------------------------------------------
\* getAll requests that can be in flight at once.
MaxPending == 2

Session(n) == [session_id |-> n]

\* What GET /sessions can answer: response.data with a sessions list, with
\* sessions null, or without the field.
Responses ==
    {[ok |-> TRUE, kind |-> "list", sessions |-> list] :
        list \in {<<>>, <<Session(1)>>, <<Session(2)>>, <<Session(1), Session(2)>>}}
        \cup {[ok |-> TRUE, kind |-> "null", sessions |-> <<>>],
              [ok |-> TRUE, kind |-> "absent", sessions |-> <<>>]}

\* response.data.sessions || []
SessionsOrEmpty(response) ==
    IF response.kind = "list" THEN response.sessions ELSE <<>>

FetchFailedMessage == "Failed to fetch sessions"

\* The component renders only the spinner while isLoading: no button, card
\* or modal exists to call a handler.
Rendered == ~isLoading

\* fetchSessions called from the Refresh button: the request goes out.
Refresh ==
    /\ Rendered
    /\ pending < MaxPending
    /\ pending' = pending + 1
    /\ UNCHANGED <<sessions, isLoading, error, isModalOpen, editingSession,
                   isEditing, last_response, last_save>>
    /\ UNCHANGED bot

\* fetchSessions resumes after getAll resolved: try block, then finally.
FetchSucceeds ==
    /\ pending > 0
    /\ \E response \in Responses :
          /\ sessions' = SessionsOrEmpty(response)
          /\ last_response' = response
    /\ error' = None
    /\ isLoading' = FALSE
    /\ pending' = pending - 1
    /\ UNCHANGED <<isModalOpen, editingSession, isEditing, last_save>>
    /\ UNCHANGED bot

\* fetchSessions resumes after getAll rejected: catch block, then finally
\* (first with a catch block that also empties the list).
FetchFails_ClearsList ==
    /\ pending > 0
    /\ sessions' = <<>>
    /\ error' = Some(FetchFailedMessage)
    /\ isLoading' = FALSE
    /\ pending' = pending - 1
    /\ last_response' = [ok |-> FALSE, kind |-> "rejected", sessions |-> <<>>]
    /\ UNCHANGED <<isModalOpen, editingSession, isEditing, last_save>>
    /\ UNCHANGED bot
FetchFails ==
    /\ pending > 0
    /\ error' = Some(FetchFailedMessage)
    /\ isLoading' = FALSE
    /\ pending' = pending - 1
    /\ last_response' = [ok |-> FALSE, kind |-> "rejected", sessions |-> <<>>]
    /\ UNCHANGED <<sessions, isModalOpen, editingSession, isEditing, last_save>>
    /\ UNCHANGED bot

\* handleCreateSession: create, then fetchSessions unless create rejected.
handleCreateSession ==
    /\ Rendered
    /\ ~isEditing
    /\ pending < MaxPending
    /\ \E created \in BOOLEAN :
          /\ pending' = IF created THEN pending + 1 ELSE pending
          /\ last_save' = [handler |-> "create", session_id |-> 0,
                           outcome |-> IF created THEN "saved" ELSE "rejected"]
    /\ UNCHANGED <<sessions, isLoading, error, isModalOpen, editingSession,
                   isEditing, last_response>>
    /\ UNCHANGED bot

\* handleUpdateSession: reads editingSession.session_id (a TypeError when
\* editingSession is null), updates, then fetchSessions unless update
\* rejected.
handleUpdateSession ==
    /\ Rendered
    /\ isEditing
    /\ pending < MaxPending
    /\ IF editingSession = None
       THEN /\ last_save' = [handler |-> "update", session_id |-> 0,
                             outcome |-> "TypeError"]
            /\ pending' = pending
       ELSE \E updated \in BOOLEAN :
               /\ pending' = IF updated THEN pending + 1 ELSE pending
               /\ last_save' = [handler |-> "update",
                                session_id |-> editingSession[1].session_id,
                                outcome |-> IF updated THEN "saved" ELSE "rejected"]
    /\ UNCHANGED <<sessions, isLoading, error, isModalOpen, editingSession,
                   isEditing, last_response>>
    /\ UNCHANGED bot

\* handleDeleteSession(sessionId), called by the card of a listed session.
handleDeleteSession ==
    /\ Rendered
    /\ \E i \in 1..Len(sessions) :
          sessions' = SelectSeq(sessions,
                                LAMBDA s : s.session_id # sessions[i].session_id)
    /\ UNCHANGED <<isLoading, error, isModalOpen, editingSession, isEditing,
                   pending, last_response, last_save>>
    /\ UNCHANGED bot

openCreateModal ==
    /\ Rendered
    /\ editingSession' = None
    /\ isEditing' = FALSE
    /\ isModalOpen' = TRUE
    /\ UNCHANGED <<sessions, isLoading, error, pending, last_response, last_save>>
    /\ UNCHANGED bot

\* openEditModal(session), called by the card of a listed session.
openEditModal ==
    /\ Rendered
    /\ \E i \in 1..Len(sessions) :
          editingSession' = Some(sessions[i])
    /\ isEditing' = TRUE
    /\ isModalOpen' = TRUE
    /\ UNCHANGED <<sessions, isLoading, error, pending, last_response, last_save>>
    /\ UNCHANGED bot

\* closeModal (first without its setIsEditing(false)).
closeModal_KeepsEditing ==
    /\ Rendered
    /\ isModalOpen' = FALSE
    /\ editingSession' = None
    /\ UNCHANGED <<sessions, isLoading, error, isEditing, pending,
                   last_response, last_save>>
    /\ UNCHANGED bot
closeModal ==
    /\ Rendered
    /\ isModalOpen' = FALSE
    /\ editingSession' = None
    /\ isEditing' = FALSE
    /\ UNCHANGED <<sessions, isLoading, error, pending, last_response, last_save>>
    /\ UNCHANGED bot

NextSessions ==
    \/ Refresh
    \/ FetchSucceeds
    \/ FetchFails
    \/ handleCreateSession
    \/ handleUpdateSession
    \/ handleDeleteSession
    \/ openCreateModal
    \/ openEditModal
    \/ closeModal

SpecSessions == Init /\ [][NextSessions]_vars

\* ------------------------------------------------------------------------
\* Properties
\* ------------------------------------------------------------------------
Ids(list) == {list[i].id : i \in 1..Len(list)}
DraftIds(bids) == [i \in 1..Len(bids) |-> bids[i].project_id]

\* C1: bid_counter never decreases and never exceeds BID_LIMIT, and once it
\* equals BID_LIMIT no further call of place_project_bid is made.
C1_CapMonotone ==
    [][/\ bid_counter' >= bid_counter
       /\ bid_counter' <= BID_LIMIT
       /\ (bid_counter = BID_LIMIT => placed' = placed)]_vars

\* The cap was reached with drafts of the cycle still unsubmitted, after at
\* least one placement call.
C1_Witness ==
    /\ pc = "cycle_pause"
    /\ bid_counter = BID_LIMIT
    /\ idx <= Len(shortlisted_bids)
    /\ placed # <<>>

\* C2: a project id is in the new_projects of at most one cycle: no id of a
\* cycle's new_projects was in the new_projects of an earlier cycle.
C2_Dedup ==
    [][(pc = "polling" /\ pc' = "filtering")
          => Ids(new_projects') \cap ever_new = {}]_vars

\* A search returned projects of an earlier cycle together with new ones.
C2_Witness ==
    /\ pc = "filtering"
    /\ new_projects # <<>>
    /\ Ids(projects) \ Ids(new_projects) # {}

\* C3: the run ends only by exhausting the cap: whenever the loop has been
\* left, by its test or by an exception, bid_counter equals BID_LIMIT.
C3_OnlyCapTerminates ==
    pc \in {"terminated", "crashed"} => bid_counter = BID_LIMIT

\* C4: a failed lookup in filter_projects drops only the current project:
\* every iteration of the filter moves on to the next project of the batch,
\* and the filter hands over to the qualifier.
C4_LookupFailureSkips ==
    [][pc = "filtering"
          => \/ pc' = "filtering" /\ idx' = idx + 1
             \/ pc' = "qualifying"]_vars

\* C5: bid_counter equals the number of place_project_bid calls made so
\* far; a draft whose identity resolution failed is not counted.
C5_CounterCountsPlacements == bid_counter = Len(placed)

\* C6: a failed placement adds exactly one to bid_counter and the loop moves
\* to the next draft; with a cap of 3 and five drafts in a cycle the loop
\* ends after exactly three placement calls, for the first three drafts in
\* order, with bid_counter = 3.
C6_FailedPlacementCounts ==
    /\ [][(pc = "pacing" /\ last_bid'.placement \in {"falsy", "raised"})
             => /\ bid_counter' = bid_counter + 1
                /\ idx' = idx + 1
                /\ pc' = "submitting"]_vars
    /\ []((BID_LIMIT = 3 /\ Len(shortlisted_bids) = 5 /\ pc = "cycle_pause")
             => /\ bid_counter = 3
                /\ idx = 4
                /\ placed = SubSeq(DraftIds(shortlisted_bids), 1, 3))

\* The drafts built so far, with the project and the budget_deadline_info
\* each was built from.
Drafts == 1..Len(shortlisted_bids)
IsFixed(project) == LowerTok(project.type) = "fixed"
HasBudget(info) == SearchNumber("Budget:", info) # None
HasDeadline(info) == SearchNumber("Deadline:", info) # None
RawOf(id) == CHOOSE raw \in {new_projects[i] : i \in 1..Len(new_projects)} : raw.id = id

\* C7: every draft's bid amount is at least 70 and, for a fixed-type
\* project, at least the client's minimum budget.
C7_BidFloor ==
    \A i \in Drafts :
        /\ RatLeq(Int2Rat(70), shortlisted_bids[i].bid_amount)
        /\ IsFixed(refined_projects[i])
             => RatLeq(Int2Rat(refined_projects[i].minimum_budget),
                       shortlisted_bids[i].bid_amount)

C9_FixedParsed ==
    \A i \in Drafts :
        LET project == refined_projects[i]
            bid == shortlisted_bids[i]
            B == SearchNumber("Budget:", infos[i])[1]
            D == SearchNumber("Deadline:", infos[i])[1]
        IN /\ (/\ IsFixed(project)
               /\ HasBudget(infos[i]) /\ HasDeadline(infos[i])
               /\ project.exchange_rate # None
               /\ project.exchange_rate[1] > 0)
                => /\ bid.bid_amount[1] * project.exchange_rate[1]
                        = (IF B > 70 THEN B ELSE 70) * bid.bid_amount[2] * project.exchange_rate[2]
                   /\ bid.bid_period = D
           /\ (/\ IsFixed(project)
               /\ project.minimum_budget = 200 /\ project.maximum_budget = 800
               /\ project.exchange_rate = <<2, 1>>
               /\ infos[i] = <<"Budget:", " ", "6", "0", "0", " ", "USD", ",", " ",
                               "Deadline:", " ", "1", "0", " ", "days">>)
                => bid.bid_amount = <<300, 1>> /\ bid.bid_period = 10

\* The scenario of C9 was priced: budget 200..800, exchange rate 2, a reply
\* that parses to 600 and 10.
C9_Witness ==
    \E i \in Drafts :
        /\ IsFixed(refined_projects[i])
        /\ refined_projects[i].minimum_budget = 200
        /\ refined_projects[i].maximum_budget = 800
        /\ refined_projects[i].exchange_rate = <<2, 1>>
        /\ SearchNumber("Budget:", infos[i]) = <<600>>
        /\ SearchNumber("Deadline:", infos[i]) = <<10>>
        /\ shortlisted_bids[i].bid_amount = <<300, 1>>
        /\ shortlisted_bids[i].bid_period = 10

\* C10: for a fixed-type project whose reply lacks the budget, the deadline
\* or both, or whose model call failed, the bid amount is
\* max(70, minimum_budget + maximum_budget / 1.5) and the bid period is 7
\* (min=100, max=600: amount 500), and pricing raises no error.
C10_FixedUnparsed ==
    /\ [](\A i \in Drafts :
            LET project == refined_projects[i]
                bid == shortlisted_bids[i]
                floor3 == 3 * 70
                sum3 == 3 * project.minimum_budget + 2 * project.maximum_budget
            IN (IsFixed(project) /\ ~(HasBudget(infos[i]) /\ HasDeadline(infos[i])))
                 => /\ 3 * bid.bid_amount[1]
                         = (IF sum3 > floor3 THEN sum3 ELSE floor3) * bid.bid_amount[2]
                    /\ bid.bid_period = 7
                    /\ (project.minimum_budget = 100 /\ project.maximum_budget = 600)
                         => bid.bid_amount = <<500, 1>>)
    /\ [][pc = "pricing" => pc' \in {"pricing", "submitting"}]_vars

\* A fixed-type project with budget 100..600 was priced after a failed or
\* empty reply.
C10_Witness ==
    \E i \in Drafts :
        /\ IsFixed(refined_projects[i])
        /\ refined_projects[i].minimum_budget = 100
        /\ refined_projects[i].maximum_budget = 600
        /\ infos[i] = <<>>
        /\ shortlisted_bids[i].bid_amount = <<500, 1>>
        /\ shortlisted_bids[i].bid_period = 7

\* C11: for every project whose type is not 'fixed', the bid amount is
\* (minimum_budget + maximum_budget) / 2 and the bid period is 40, whatever
\* the reply and the exchange rate are (min=300, max=900: amount 600).
C11_NonFixedOverride ==
    \A i \in Drafts :
        LET project == refined_projects[i]
            bid == shortlisted_bids[i]
        IN project.type \notin {"fixed", "Fixed", "FIXED"}
             => /\ 2 * bid.bid_amount[1]
                     = (project.minimum_budget + project.maximum_budget) * bid.bid_amount[2]
                /\ bid.bid_period = 40
                /\ (project.minimum_budget = 300 /\ project.maximum_budget = 900)
                     => bid.bid_amount = <<600, 1>>

\* An hourly project with budget 300..900 was priced from a reply that
\* parses to 600 and 10.
C11_Witness ==
    \E i \in Drafts :
        /\ refined_projects[i].type = "hourly"
        /\ refined_projects[i].minimum_budget = 300
        /\ refined_projects[i].maximum_budget = 900
        /\ SearchNumber("Budget:", infos[i]) = <<600>>
        /\ SearchNumber("Deadline:", infos[i]) = <<10>>
        /\ shortlisted_bids[i].bid_amount = <<600, 1>>
        /\ shortlisted_bids[i].bid_period = 40

\* C12: a project is appended to the qualifier's output exactly when the
\* model call returned and its text, without <think> blocks and surrounding
\* blanks, is 'match' in any letter case; a failed call or any other text
\* leaves it out, and the qualifier goes on with the next project.
C12_FailClosedExact ==
    [][(pc = "qualifying" /\ idx' = idx + 1)
          => /\ pc' = "qualifying"
             /\ refined_projects' =
                   IF last_match' \in
                        {[ok |-> TRUE, content |-> <<"MATCH">>],
                         [ok |-> TRUE, content |-> <<" ", "Match", " ">>],
                         [ok |-> TRUE,
                          content |-> <<"<think>", "NO", " ", "MATCH", "</think>",
                                        " ", "match">>]}
                   THEN Append(refined_projects, filtered_projects[idx])
                   ELSE refined_projects]_vars

\* The model call failed for a project, the project was left out and
\* another project of the batch is still to be evaluated.
C12_Witness ==
    /\ pc = "qualifying"
    /\ last_match = [ok |-> FALSE, content |-> <<>>]
    /\ idx = 2
    /\ refined_projects = <<>>
    /\ Len(filtered_projects) >= 2

\* a is b with some entries left out, the order kept.
RECURSIVE IsSubList(_, _)
IsSubList(a, b) ==
    IF a = <<>> THEN TRUE
    ELSE IF b = <<>> THEN FALSE
    ELSE IF Head(a).id = Head(b).id THEN IsSubList(Tail(a), Tail(b))
    ELSE IsSubList(a, Tail(b))

\* C13: the drafts of a cycle correspond one to one, in order, to the
\* qualified projects of the cycle, each carrying its project's id; the
\* qualified projects are among the filter's output, which is among the new
\* projects; and every placement call is for a qualified project.
C13_DraftsMatchQualified ==
    /\ [](pc \in {"pricing", "submitting", "pacing", "cycle_pause"}
            => /\ Len(shortlisted_bids) <= Len(refined_projects)
               /\ \A i \in Drafts :
                     shortlisted_bids[i].project_id = refined_projects[i].id
               /\ pc # "pricing" => Len(shortlisted_bids) = Len(refined_projects)
               /\ IsSubList(refined_projects, filtered_projects)
               /\ IsSubList(filtered_projects, new_projects))
    /\ [][placed' # placed
            => \E id \in Ids(refined_projects) : placed' = Append(placed, id)]_vars

\* A cycle in which the filter rejected a project, the qualifier rejected
\* another and a bid was placed for a qualified one.
C13_Witness ==
    /\ pc = "submitting"
    /\ idx > 1
    /\ last_bid.placement = "ok"
    /\ Len(new_projects) > Len(filtered_projects)
    /\ Len(filtered_projects) > Len(refined_projects)

\* C14: a project whose NDA flag is set is never passed to get_projects
\* and never reaches the qualifier, whatever its owner's country, currency,
\* status and type are.
C14_NdaNeverEnriched ==
    \A i \in 1..Len(new_projects) :
        new_projects[i].upgrades.NDA
            => /\ \A k \in 1..Len(lookups) :
                     lookups[k].project_id = new_projects[i].id => ~lookups[k].details
               /\ new_projects[i].id \notin Ids(filtered_projects)
               /\ new_projects[i].id \notin Ids(refined_projects)

\* The filter has gone through a project that only its NDA flag excludes.
C14_Witness ==
    /\ pc = "qualifying"
    /\ Len(new_projects) = 1
    /\ new_projects[1].upgrades.NDA
    /\ new_projects[1].currency.code = "USD"
    /\ new_projects[1].status = "active"
    /\ lookups[1].owner = [ok |-> TRUE, country |-> "United States"]
    /\ filtered_projects = <<>>

\* C15: when search_projects fails the loop sleeps the backoff and returns
\* to the while test to search again, any number of times in a row: the
\* failed iteration changes neither processed_project_ids nor bid_counter,
\* builds no list and makes no lookup, model call or placement call, so the
\* retry starts from the state the failed search started from.
C15_SearchFailureRetries ==
    /\ [][(pc = "polling" /\ pc' \notin {"filtering", "terminated"})
            => /\ pc' = "backoff"
               /\ UNCHANGED <<processed_project_ids, bid_counter, cycle, history>>]_vars
    /\ [][pc = "backoff"
            => /\ pc' = "polling"
               /\ UNCHANGED <<processed_project_ids, bid_counter, cycle, history>>]_vars
    /\ [](pc = "backoff" => bid_counter < BID_LIMIT)
    /\ []((pc = "polling" /\ bid_counter < BID_LIMIT) => ENABLED SearchFails)

\* A search failed after bids had been processed in earlier cycles.
C15_Witness ==
    /\ pc = "backoff"
    /\ bid_counter > 0
    /\ processed_project_ids # {}

\* C16: highlight_project_bid is called for a draft only after
\* place_project_bid returned a truthy response for that draft; when the
\* seal fails, the draft still counts once, exactly one placement call was
\* made for it and the loop goes on to the next draft.
C16_SealBestEffort ==
    /\ [](last_bid.seal # "none" => last_bid.placement = "ok")
    /\ [][(pc = "pacing" /\ last_bid'.seal = "failed")
            => /\ last_bid'.project_id = shortlisted_bids[idx].project_id
               /\ placed' = Append(placed, shortlisted_bids[idx].project_id)
               /\ bid_counter' = bid_counter + 1
               /\ idx' = idx + 1
               /\ pc' = "submitting"]_vars

\* A seal failed and the loop is about to go on with the next draft.
C16_Witness ==
    /\ pc = "submitting"
    /\ last_bid.seal = "failed"
    /\ idx <= Len(shortlisted_bids)
    /\ bid_counter < BID_LIMIT

\* Every project of refined_projects yields exactly one draft, in order,
\* whose amount and period are those computed from the project and its
\* budget analysis, whatever the bid-text call did; the draft of a failed
\* bid-text call carries the empty string.
EmptyTextDrafts ==
    /\ Len(composed) = Len(shortlisted_bids)
    /\ Len(infos) = Len(shortlisted_bids)
    /\ pc = "pricing" => Len(shortlisted_bids) = idx - 1
    /\ pc \in {"submitting", "pacing", "cycle_pause"}
          => Len(shortlisted_bids) = Len(refined_projects)
    /\ \A i \in 1..Len(shortlisted_bids) :
          /\ shortlisted_bids[i].project_id = refined_projects[i].id
          /\ <<shortlisted_bids[i].bid_amount, shortlisted_bids[i].bid_period>>
                = BidAmountAndPeriod(refined_projects[i], infos[i])
          /\ ~composed[i] => shortlisted_bids[i].bid_content = <<>>

\* One iteration of the pricing loop appends one draft and leaves the
\* drafts built before it as they were; below the cap the submission loop
\* hands every draft it reaches to place_bid.
DraftsIndependent ==
    /\ (pc = "pricing" /\ pc' = "pricing")
          => /\ Len(shortlisted_bids') = Len(shortlisted_bids) + 1
             /\ SubSeq(shortlisted_bids', 1, Len(shortlisted_bids)) = shortlisted_bids
             /\ SubSeq(composed', 1, Len(composed)) = composed
    /\ (pc = "submitting" /\ idx <= Len(shortlisted_bids) /\ bid_counter < BID_LIMIT)
          => /\ pc' = "pacing"
             /\ idx' = idx
             /\ shortlisted_bids' = shortlisted_bids

\* C17 as stated: a failed bid-text call gives a draft with empty text and
\* the normally computed amount and period, leaves the batch's other drafts
\* alone, and below the cap a placement call is made for that draft.
C17_EmptyTextStillPlaced ==
    /\ []EmptyTextDrafts
    /\ [][DraftsIndependent]_vars
    /\ [][(pc = "pacing" /\ ~composed[idx])
            => placed' = Append(placed, shortlisted_bids[idx].project_id)]_vars

\* C17, amended: as above, but the placement call for the empty-text draft
\* is made when the cap permits and get_self_user_id returned; place_bid is
\* called for the draft in either case.
C17_EmptyTextStillSubmitted ==
    /\ []EmptyTextDrafts
    /\ [][DraftsIndependent]_vars
    /\ [][(pc = "pacing" /\ ~composed[idx])
            => /\ last_bid'.project_id = shortlisted_bids[idx].project_id
               /\ last_bid'.identity = "ok"
                     => /\ last_bid'.placement # "none"
                        /\ placed' = Append(placed, shortlisted_bids[idx].project_id)
               /\ last_bid'.identity # "ok"
                     => /\ last_bid'.placement = "none"
                        /\ placed' = placed]_vars

\* In a batch of several drafts one bid-text call failed and another
\* returned; the empty-text draft has just been placed.
C17_Witness ==
    /\ pc = "submitting"
    /\ idx > 1
    /\ Len(shortlisted_bids) >= 2
    /\ ~composed[idx - 1]
    /\ shortlisted_bids[idx - 1].bid_content = <<>>
    /\ \E j \in 1..Len(composed) :
          composed[j] /\ shortlisted_bids[j].bid_content # <<>>
    /\ last_bid.project_id = shortlisted_bids[idx - 1].project_id
    /\ last_bid.placement = "ok"

\* C18: processed_project_ids starts empty, no step removes an identifier,
\* and when filter_projects starts every identifier of the fetched batch is
\* in the set, where it stays whatever happens to the project afterwards.
C18_ProcessedOnlyGrows ==
    /\ processed_project_ids = {}
    /\ [][processed_project_ids \subseteq processed_project_ids']_vars
    /\ [][(pc = "polling" /\ pc' = "filtering")
            => /\ projects' \in Batches
               /\ Ids(projects') \subseteq processed_project_ids']_vars
    /\ [](Ids(projects) \subseteq processed_project_ids)
    /\ [](ever_new \subseteq processed_project_ids)

\* The cap was reached with a draft left unsubmitted and a project of the
\* batch rejected by the qualifier: both are in processed_project_ids.
C18_Witness ==
    /\ pc = "cycle_pause"
    /\ bid_counter = BID_LIMIT
    /\ idx <= Len(shortlisted_bids)
    /\ shortlisted_bids[idx].project_id \in processed_project_ids
    /\ \E i \in 1..Len(filtered_projects) :
          /\ filtered_projects[i].id \notin Ids(refined_projects)
          /\ filtered_projects[i].id \in processed_project_ids

\* C19: once bid_counter equals the cap the loop only leaves the submission
\* loop, sleeps the pending pause, tests the while condition and stops;
\* these steps fetch nothing and make no lookup, model or placement call.
\* Every pause leads back to the while test, and a fetch happens only
\* below the cap.
C19_CapStopsLoop ==
    /\ [](bid_counter <= BID_LIMIT)
    /\ [](bid_counter = BID_LIMIT
            => pc \in {"submitting", "cycle_pause", "polling", "terminated"})
    /\ [][bid_counter = BID_LIMIT
            => /\ \/ pc = "submitting" /\ pc' = "cycle_pause"
                  \/ pc = "cycle_pause" /\ pc' = "polling"
                  \/ pc = "polling" /\ pc' = "terminated"
               /\ UNCHANGED <<processed_project_ids, bid_counter, history, last_match>>
               /\ Len(projects') <= Len(projects)
               /\ Len(lookups') <= Len(lookups)
               /\ Len(infos') <= Len(infos)
               /\ Len(composed') <= Len(composed)]_vars
    /\ []((bid_counter = BID_LIMIT /\ pc # "terminated")
            => ENABLED (BidLimitBreak \/ BidsExhausted \/ CyclePauseOver \/ LoopExits))
    /\ [][(pc \in {"cycle_pause", "backoff"}) => (pc' = "polling")]_vars
    /\ [][(pc = "polling" /\ pc' = "filtering") => bid_counter < BID_LIMIT]_vars

\* The while test failed at the cap and the loop stopped.
C19_Witness ==
    /\ pc = "terminated"
    /\ bid_counter = BID_LIMIT

\* The four eligibility predicates for input project i, given the owner
\* country the lookup for it returned.
Eligible(i) ==
    /\ LowerTok(lookups[i].owner.country) \notin unwanted_countries
    /\ new_projects[i].currency.code \notin unwanted_currencies
    /\ ~new_projects[i].upgrades.NDA
    /\ LowerTok(new_projects[i].status) = "active"

\* The positions of the eligible input projects, in input order.
EligiblePositions ==
    SelectSeq([i \in 1..Len(new_projects) |-> i], LAMBDA i : Eligible(i))

StageEdges ==
    {<<"polling", "backoff">>, <<"backoff", "polling">>,
     <<"polling", "filtering">>, <<"polling", "terminated">>,
     <<"filtering", "filtering">>, <<"filtering", "qualifying">>,
     <<"filtering", "crashed">>,
     <<"qualifying", "qualifying">>, <<"qualifying", "pricing">>,
     <<"pricing", "pricing">>, <<"pricing", "submitting">>,
     <<"submitting", "pacing">>, <<"pacing", "submitting">>,
     <<"submitting", "cycle_pause">>, <<"cycle_pause", "polling">>}

\* C21: within a cycle the stages follow one another in the order dedup,
\* filter, qualify, price/compose, submit; a stage is left only when it has
\* gone through its whole input list, so a placement is attempted only
\* after every draft of the cycle is built; placements go through the
\* drafts one at a time in list order; and a new fetch follows only the
\* pause that ends the previous cycle (or a backoff).
C21_StagesInOrder ==
    /\ [][(<<pc, pc'>> \in StageEdges)]_vars
    /\ [][(pc = "polling" /\ pc' = "filtering")
            => /\ new_projects' = NewProjects(projects', processed_project_ids)
               /\ filtered_projects' = <<>>
               /\ lookups' = <<>>]_vars
    /\ [][(pc = "filtering" /\ pc' = "qualifying")
            => /\ Len(lookups) = Len(new_projects)
               /\ filtered_projects' = filtered_projects
               /\ refined_projects' = <<>>]_vars
    /\ [][(pc = "qualifying" /\ pc' = "pricing")
            => /\ idx = Len(filtered_projects) + 1
               /\ refined_projects' = refined_projects
               /\ shortlisted_bids' = <<>>]_vars
    /\ [][(pc = "pricing" /\ pc' = "submitting")
            => /\ Len(shortlisted_bids) = Len(refined_projects)
               /\ shortlisted_bids' = shortlisted_bids
               /\ idx' = 1]_vars
    /\ [][(placed' # placed \/ last_bid' # last_bid \/ bid_counter' # bid_counter)
            => /\ pc = "pacing"
               /\ Len(shortlisted_bids) = Len(refined_projects)
               /\ shortlisted_bids' = shortlisted_bids
               /\ last_bid'.project_id = shortlisted_bids[idx].project_id
               /\ idx' = idx + 1]_vars
    /\ [][(pc = "submitting" /\ pc' = "pacing") => idx' = idx]_vars
    /\ [](pc \in {"polling", "backoff"}
            => /\ shortlisted_bids = <<>>
               /\ new_projects = <<>>)

\* The second draft of a later cycle is about to be placed, after a bid of
\* an earlier cycle.
C21_Witness ==
    /\ pc = "pacing"
    /\ idx = 2
    /\ Len(shortlisted_bids) >= 2
    /\ last_bid.project_id = shortlisted_bids[1].project_id
    /\ \E k \in 1..Len(placed) : placed[k] \notin Ids(new_projects)

\* C22: the filter, qualifier and pricing/composing stages change neither
\* processed_project_ids nor bid_counter nor the list they were given;
\* processed_project_ids changes only in the dedup step that follows a
\* successful search, and bid_counter changes only in the submission loop,
\* by exactly one for each draft handed to place_bid.
C22_StagesFrame ==
    /\ [][(pc \in {"filtering", "qualifying", "pricing"})
            => UNCHANGED <<processed_project_ids, bid_counter, projects,
                           new_projects, history>>]_vars
    /\ [][(pc \in {"qualifying", "pricing"})
            => filtered_projects' = filtered_projects]_vars
    /\ [][pc = "pricing" => refined_projects' = refined_projects]_vars
    /\ [](\A i \in 1..Len(refined_projects) :
             \E k \in 1..Len(filtered_projects) :
                refined_projects[i] = filtered_projects[k])
    /\ [][processed_project_ids' # processed_project_ids
            => /\ pc = "polling"
               /\ pc' = "filtering"
               /\ processed_project_ids' =
                     processed_project_ids \cup Ids(new_projects')]_vars
    /\ [][bid_counter' # bid_counter => pc = "pacing"]_vars
    /\ [][pc = "pacing"
            => /\ bid_counter' = bid_counter + 1
               /\ idx' = idx + 1
               /\ processed_project_ids' = processed_project_ids]_vars

\* A later cycle is pricing its second project with both the set and the
\* counter already non-trivial.
C22_Witness ==
    /\ pc = "pricing"
    /\ idx = 2
    /\ Len(refined_projects) >= 2
    /\ bid_counter > 0
    /\ Cardinality(processed_project_ids) > Len(new_projects)

\* C23: place_bid is called only out of the pacing sleep, and each pacing
\* sleep is entered from the submission loop after the previous place_bid
\* (if any) returned, so two placement attempts are always separated by a
\* sleep; and the while test is reached again only out of the sleep that
\* ends a cycle (or a backoff), also when the cycle had no draft at all.
C23_PausesSeparateCalls ==
    /\ [][(placed' # placed \/ last_bid' # last_bid) => pc = "pacing"]_vars
    /\ [][pc = "pacing" => (pc' = "submitting" /\ idx' = idx + 1)]_vars
    /\ [][pc' = "pacing" => (pc = "submitting" /\ idx' = idx)]_vars
    /\ [][pc' = "polling" => (pc \in {"cycle_pause", "backoff"})]_vars
    /\ [][(pc = "submitting" /\ pc' # "pacing") => pc' = "cycle_pause"]_vars
    /\ [][(pc = "submitting" /\ shortlisted_bids = <<>>)
            => (pc' = "cycle_pause" /\ placed' = placed)]_vars
    /\ [][(pc = "polling" /\ pc' = "filtering")
            => (shortlisted_bids = <<>> /\ idx = 1)]_vars

\* A cycle that fetched projects but built no draft is in its closing
\* sleep, in a run that placed bids before.
C23_Witness ==
    /\ pc = "cycle_pause"
    /\ projects # <<>>
    /\ shortlisted_bids = <<>>
    /\ placed # <<>>
    /\ bid_counter < BID_LIMIT

\* C24: across a run no project identifier gets more than one draft or
\* more than one placement call, also when a batch lists an identifier
\* twice.
C24_OncePerProject ==
    /\ \A i, j \in 1..Len(shortlisted_bids) :
          i # j => shortlisted_bids[i].project_id # shortlisted_bids[j].project_id
    /\ \A i, j \in 1..Len(placed) : i # j => placed[i] # placed[j]

\* C25: isEditing holds exactly when editingSession is not null; while the
\* modal is closed editingSession is null and isEditing is false; so
\* handleUpdateSession, which is the onSave handler only while isEditing,
\* always finds a session to read session_id from.
C25_EditingConsistent ==
    /\ [](isEditing <=> editingSession # None)
    /\ [](~isModalOpen => (editingSession = None /\ ~isEditing))
    /\ [](last_save.outcome # "TypeError")
    /\ [][(last_save' # last_save /\ last_save'.handler = "update")
            => /\ isEditing
               /\ editingSession # None
               /\ last_save'.session_id = editingSession[1].session_id]_vars

\* The modal was closed and opened again for the second listed session,
\* whose update was then saved.
C25_Witness ==
    /\ isModalOpen
    /\ isEditing
    /\ editingSession = Some(Session(2))
    /\ last_save = [handler |-> "update", session_id |-> 2, outcome |-> "saved"]

\* C26: when a getAll request of fetchSessions is rejected the list stays
\* as it is and error becomes 'Failed to fetch sessions'; when it resolves
\* the list becomes the returned one (empty when the field is missing or
\* null) and error becomes null; either way isLoading is false afterwards,
\* and nothing ever sets it back to true.
C26_FetchOutcome ==
    /\ [][pending' < pending
            => /\ pending' = pending - 1
               /\ isLoading' = FALSE
               /\ IF last_response'.ok
                  THEN /\ sessions' = (IF last_response'.kind = "list"
                                       THEN last_response'.sessions
                                       ELSE <<>>)
                       /\ error' = None
                  ELSE /\ sessions' = sessions
                       /\ error' = Some("Failed to fetch sessions")]_vars
    /\ [][last_response' # last_response => pending' < pending]_vars
    /\ [][isLoading' => isLoading]_vars
    /\ [][(error' # error \/ isLoading' # isLoading) => pending' < pending]_vars

\* A refresh failed after an earlier fetch had filled the list: the list
\* is still shown, with the error.
C26_Witness ==
    /\ ~last_response.ok
    /\ last_response.kind = "rejected"
    /\ sessions = <<Session(1), Session(2)>>
    /\ error = Some("Failed to fetch sessions")
    /\ ~isLoading

====
